---- MODULE Spec2Model ----
(***************************************************************************)
(* The Arkanoid component (src/components/ArkanoidGame.tsx) as a state     *)
(* machine: the React state (gameState, score, lives), the refs (ball,     *)
(* paddle, bricks, keysPressed, animationFrameRef), the frame callback     *)
(* that requestAnimationFrame holds, the key handlers and update().        *)
(*                                                                         *)
(* Numbers.  The code computes in IEEE doubles.  Here every length and     *)
(* velocity is an integer count of 1/U pixel, so the additions, sign flips *)
(* and comparisons of the code are exact; Math.sqrt, Math.sin and Math.cos *)
(* are fixed-point (Isqrt, Sin, Cos: four decimal digits).                 *)
(*                                                                         *)
(* React.  A setState call and the render and effects that follow it are   *)
(* one step with the handler or frame that made the call: the key          *)
(* handlers are re-registered by the effect of lines 371-404 after every   *)
(* gameState change, so a key handler always sees the committed gameState. *)
(* A frame callback is different: gameLoop re-requests ITSELF (line 367),  *)
(* so the callback keeps the gameState of the render that started the      *)
(* loop.  update(gs) takes that captured value as its parameter.           *)
(*                                                                         *)
(* Two specifications.  Spec is the component as mounted: the frame runs   *)
(* update with the gameState its closure captured.  SpecEngine runs the    *)
(* same update with the committed gameState, from the frame states of      *)
(* EngineInit, and is where the body of update below its gate is           *)
(* exercised.                                                              *)
(***************************************************************************)
EXTENDS Integers, Sequences, FiniteSets

\* ------------------------------------------------------------------------
\* Program constants (pixels), lines 42-53 and the literals of lines 37-68.
CANVAS_WIDTH == 800
CANVAS_HEIGHT == 600
PADDLE_WIDTH == 120
PADDLE_HEIGHT == 15
BALL_RADIUS == 8
BRICK_ROWS == 6
BRICK_COLS == 10
BRICK_WIDTH == 70
BRICK_HEIGHT == 25
BRICK_PADDING == 10
BRICK_OFFSET_TOP == 60
BRICK_OFFSET_LEFT == 35
PADDLE_BOTTOM_GAP == 40
PADDLE_SPEED == 8
BALL_SPEED == 4
START_LIVES == 3
POINTS_PER_ROW == 10

\* ------------------------------------------------------------------------
\* Bounds of the model.
\* U: units per pixel.  MaxTicks: frames run from an initial state.
\* MaxHeld: keys held down at the same time.
U == 100
MaxTicks == 2
MaxHeld == 2

Px(n) == n * U

GameStates == {"ready", "playing", "paused", "gameOver", "win"}

\* The keys the model's keyboard sends (e.key values).
Keys == {"ArrowLeft", "ArrowRight", "a", "d", " ", "r"}

NumBricks == BRICK_ROWS * BRICK_COLS
BrickIds == 1..NumBricks

\* ------------------------------------------------------------------------
\* Arithmetic of the JavaScript Math object, in fixed point.

Abs(n) == IF n < 0 THEN -n ELSE n

\* Division rounding toward zero (symmetric in the sign of a), b > 0.
Quot(a, b) == IF a >= 0 THEN a \div b ELSE -((-a) \div b)

RECURSIVE IsqrtIter(_, _, _)
IsqrtIter(n, lo, hi) ==
    IF lo >= hi THEN lo
    ELSE LET mid == (lo + hi + 1) \div 2
         IN  IF mid * mid <= n THEN IsqrtIter(n, mid, hi)
                               ELSE IsqrtIter(n, lo, mid - 1)

\* Math.sqrt on a non-negative integer, rounded down.
Isqrt(n) == IsqrtIter(n, 0, 46340)

\* Angles are in 1/10000 radian; Sin and Cos return 10000 * sin, 10000 * cos
\* (Taylor polynomials, exact to the fourth digit for |angle| <= 1.2 rad).
TrigMul(a, b) == Quot(a * b, 10000)

Sin(a) ==
    LET a2 == TrigMul(a, a)
        a3 == TrigMul(a2, a)
        a5 == TrigMul(a3, a2)
        a7 == TrigMul(a5, a2)
        a9 == TrigMul(a7, a2)
    IN  a - Quot(a3, 6) + Quot(a5, 120) - Quot(a7, 5040) + Quot(a9, 362880)

Cos(a) ==
    LET a2 == TrigMul(a, a)
        a4 == TrigMul(a2, a2)
        a6 == TrigMul(a4, a2)
        a8 == TrigMul(a6, a2)
    IN  10000 - Quot(a2, 2) + Quot(a4, 24) - Quot(a6, 720) + Quot(a8, 40320)

\* (hitPosition - 0.5) * Math.PI * 0.6 with hitPosition = off / width:
\* (2 off - width) * 0.3 pi / width, and 0.3 pi = 0.94248.
HitAngle(off, width) == Quot((2 * off - width) * 9425, width)

\* ------------------------------------------------------------------------
\* Entities.

\* The paddle of lines 56-62 with its x at px.
PaddleAt(px) ==
    [x |-> px,
     y |-> Px(CANVAS_HEIGHT - PADDLE_BOTTOM_GAP),
     width |-> Px(PADDLE_WIDTH),
     height |-> Px(PADDLE_HEIGHT),
     speed |-> Px(PADDLE_SPEED)]

PaddleStartX == Px(CANVAS_WIDTH) \div 2 - Px(PADDLE_WIDTH) \div 2

\* The ball of lines 64-70.
InitialBall ==
    [x |-> Px(CANVAS_WIDTH) \div 2,
     y |-> Px(CANVAS_HEIGHT) \div 2,
     dx |-> Px(BALL_SPEED),
     dy |-> -Px(BALL_SPEED),
     radius |-> Px(BALL_RADIUS)]

\* resetBall serving the ball downward.
resetBallDown(sign) ==
    [x |-> Px(CANVAS_WIDTH) \div 2,
     y |-> Px(CANVAS_HEIGHT) \div 2,
     dx |-> Px(BALL_SPEED) * sign,
     dy |-> Px(BALL_SPEED),
     radius |-> Px(BALL_RADIUS)]

\* resetBall, lines 97-105; sign is the outcome of Math.random() > 0.5.
resetBall(sign) ==
    [x |-> Px(CANVAS_WIDTH) \div 2,
     y |-> Px(CANVAS_HEIGHT) \div 2,
     dx |-> Px(BALL_SPEED) * sign,
     dy |-> -Px(BALL_SPEED),
     radius |-> Px(BALL_RADIUS)]

\* Row and column of the i-th brick pushed by initBricks (row-major).
BrickRow(i) == (i - 1) \div BRICK_COLS
BrickCol(i) == (i - 1) % BRICK_COLS

\* BrickPoints with the rows counted from the top.
BrickPointsFromTop(i) == (BrickRow(i) + 1) * POINTS_PER_ROW

BrickPoints(i) == (BRICK_ROWS - BrickRow(i)) * POINTS_PER_ROW

\* The i-th brick of bricks.current, its active flag taken from act.
Brick(i, act) ==
    [x |-> Px(BrickCol(i) * (BRICK_WIDTH + BRICK_PADDING) + BRICK_OFFSET_LEFT),
     y |-> Px(BrickRow(i) * (BRICK_HEIGHT + BRICK_PADDING) + BRICK_OFFSET_TOP),
     width |-> Px(BRICK_WIDTH),
     height |-> Px(BRICK_HEIGHT),
     active |-> act[i],
     points |-> BrickPoints(i)]

\* initBricks, lines 75-94: every brick active.
initBricks == [i \in BrickIds |-> TRUE]

\* ------------------------------------------------------------------------
\* Geometry, lines 221-226 and 261-266: the AABB test of the ball's bounding
\* box against a rectangle r (a brick or the paddle).
Overlap(b, r) ==
    /\ b.x + b.radius > r.x
    /\ b.x - b.radius < r.x + r.width
    /\ b.y + b.radius > r.y
    /\ b.y - b.radius < r.y + r.height

\* Lines 289-291.
MoveBall(b) == [b EXCEPT !.x = b.x + b.dx, !.y = b.y + b.dy]

\* WallBounce losing a tenth of dx at a side wall.
WallBounceLossy(b) ==
    LET h == IF b.x + b.radius > Px(CANVAS_WIDTH) \/ b.x - b.radius < 0
                THEN [b EXCEPT !.dx = -Quot(b.dx * 9, 10)] ELSE b
    IN  IF h.y - h.radius < 0 THEN [h EXCEPT !.dy = -h.dy] ELSE h

\* Lines 293-300.
WallBounce(b) ==
    LET h == IF b.x + b.radius > Px(CANVAS_WIDTH) \/ b.x - b.radius < 0
                THEN [b EXCEPT !.dx = -b.dx] ELSE b
    IN  IF h.y - h.radius < 0 THEN [h EXCEPT !.dy = -h.dy] ELSE h

\* Line 303.
BallFell(b) == b.y - b.radius > Px(CANVAS_HEIGHT)

\* Lines 317 and 320: the held keys update() reads.
LeftHeld(keys) == "ArrowLeft" \in keys \/ "a" \in keys
RightHeld(keys) == "ArrowRight" \in keys \/ "d" \in keys

\* ClampPaddle without its left bound (line 325 dropped).
ClampPaddleRightOnly(p) ==
    IF p.x + p.width > Px(CANVAS_WIDTH)
       THEN [p EXCEPT !.x = Px(CANVAS_WIDTH) - p.width] ELSE p

\* Lines 324-326.
ClampPaddle(p) ==
    LET lo == IF p.x < 0 THEN [p EXCEPT !.x = 0] ELSE p
    IN  IF lo.x + lo.width > Px(CANVAS_WIDTH)
           THEN [lo EXCEPT !.x = Px(CANVAS_WIDTH) - lo.width] ELSE lo

\* Lines 316-326.
MovePaddle(p, keys) ==
    LET l == IF LeftHeld(keys) THEN [p EXCEPT !.x = p.x - p.speed] ELSE p
        r == IF RightHeld(keys) THEN [l EXCEPT !.x = l.x + l.speed] ELSE l
    IN  ClampPaddle(r)

\* checkBallPaddleCollision without Math.abs and the minus sign of line 275.
checkBallPaddleCollisionDown(b, p) ==
    IF Overlap(b, p)
    THEN LET angle == HitAngle(b.x - p.x, p.width)
             speed == Isqrt(b.dx * b.dx + b.dy * b.dy)
         IN  [b EXCEPT !.dx = Quot(Sin(angle) * speed, 10000),
                       !.dy = Quot(Cos(angle) * speed, 10000),
                       !.y = p.y - b.radius]
    ELSE b

\* checkBallPaddleCollision without the snap of line 278.
checkBallPaddleCollisionNoSnap(b, p) ==
    IF Overlap(b, p)
    THEN LET angle == HitAngle(b.x - p.x, p.width)
             speed == Isqrt(b.dx * b.dx + b.dy * b.dy)
         IN  [b EXCEPT !.dx = Quot(Sin(angle) * speed, 10000),
                       !.dy = -Abs(Quot(Cos(angle) * speed, 10000))]
    ELSE b

\* Lines 257-280.
checkBallPaddleCollision(b, p) ==
    IF Overlap(b, p)
    THEN LET angle == HitAngle(b.x - p.x, p.width)
             speed == Isqrt(b.dx * b.dx + b.dy * b.dy)
         IN  [b EXCEPT !.dx = Quot(Sin(angle) * speed, 10000),
                       !.dy = -Abs(Quot(Cos(angle) * speed, 10000)),
                       !.y = p.y - b.radius]
    ELSE b

\* BounceOffBrick with >= in the test of line 242.
BounceOffBrickTieVertical(b, brick) ==
    LET dx2 == 2 * b.x - (2 * brick.x + brick.width)
        dy2 == 2 * b.y - (2 * brick.y + brick.height)
        width2 == brick.width + b.radius * 2
        height2 == brick.height + b.radius * 2
    IN  IF Abs(width2 * dy2) >= Abs(height2 * dx2)
           THEN [b EXCEPT !.dy = -b.dy]
           ELSE [b EXCEPT !.dx = -b.dx]

\* Lines 227-246.  The code compares |width * dy| with |height * dx| where
\* width = (brick.width + 2r)/2, dx = b.x - (brick.x + brick.width/2), and
\* the same in y; both sides are multiplied by 4 here so that halves of odd
\* numbers stay integers.
BounceOffBrick(b, brick) ==
    LET dx2 == 2 * b.x - (2 * brick.x + brick.width)
        dy2 == 2 * b.y - (2 * brick.y + brick.height)
        width2 == brick.width + b.radius * 2
        height2 == brick.height + b.radius * 2
        crossWidth == width2 * dy2
        crossHeight == height2 * dx2
    IN  IF Abs(crossWidth) > Abs(crossHeight)
           THEN [b EXCEPT !.dy = -b.dy]
           ELSE [b EXCEPT !.dx = -b.dx]

\* ScanBricks without the break of line 251: every overlapping active brick
\* is hit.
RECURSIVE ScanBricksNoBreak(_, _, _)
ScanBricksNoBreak(i, b, act) ==
    IF i > NumBricks
    THEN [ball |-> b, bricks |-> act, points |-> 0]
    ELSE IF act[i] /\ Overlap(b, Brick(i, act))
         THEN LET rest == ScanBricksNoBreak(i + 1, b, act)
              IN  [ball |-> BounceOffBrick(rest.ball, Brick(i, act)),
                   bricks |-> [rest.bricks EXCEPT ![i] = FALSE],
                   points |-> BrickPoints(i) + rest.points]
         ELSE ScanBricksNoBreak(i + 1, b, act)

\* Lines 217-254: the scan from the i-th brick on; it stops at the first
\* active brick the ball overlaps.
RECURSIVE ScanBricks(_, _, _)
ScanBricks(i, b, act) ==
    IF i > NumBricks
    THEN [ball |-> b, bricks |-> act, points |-> 0]
    ELSE IF act[i] /\ Overlap(b, Brick(i, act))
         THEN [ball |-> BounceOffBrick(b, Brick(i, act)),
               bricks |-> [act EXCEPT ![i] = FALSE],
               points |-> BrickPoints(i)]
         ELSE ScanBricks(i + 1, b, act)

\* checkBallBrickCollision on a grid rebuilt by initBricks.
checkBallBrickCollisionRebuilt(b, act) == ScanBricks(1, b, initBricks)

\* Lines 214-255.
checkBallBrickCollision(b, act) == ScanBricks(1, b, act)

\* Line 333.
ActiveBricks(act) == {i \in BrickIds : act[i]}

\* ------------------------------------------------------------------------
\* State.
VARIABLES
    gameState,          \* useState, line 35
    score,              \* useState, line 36
    lives,              \* useState, line 37
    ball,               \* ball.current
    paddle,             \* paddle.current
    bricks,             \* bricks.current: the active flag of each brick
    keysPressed,        \* keysPressed.current: the keys mapped to true
    animationFrameRef,  \* the loop whose handle the ref holds, or "undefined"
    pending,            \* the gameState captured by each pending frame callback
    mounted,            \* the component is mounted (listeners registered)
    ticks,              \* frames run so far
    last,               \* what the last step was and the state it started from
    played              \* one record per frame that passed the gate of update()

vars == <<gameState, score, lives, ball, paddle, bricks, keysPressed,
          animationFrameRef, pending, mounted, ticks, last, played>>

\* The entities and counters as one record (what a frame's snapshot shows).
Snapshot ==
    [gameState |-> gameState, score |-> score, lives |-> lives,
     ball |-> ball, paddle |-> paddle, bricks |-> bricks]

\* The record of a step that ran no simulation.
Quiet(op, key) ==
    [op |-> op, key |-> key, pre |-> Snapshot, ran |-> FALSE, fell |-> FALSE,
     paddleHit |-> FALSE, atPaddle |-> ball, atBricks |-> ball]

\* ------------------------------------------------------------------------
\* The life lost at lines 304-313: the lives after it, the phase it sets and
\* the ball it leaves.

\* LivesAfterFall taking two lives.
LivesAfterFallTwo(prev) == prev - 2

LivesAfterFall(prev) == prev - 1

\* PhaseAfterFall with the test one off (newLives < 0).
PhaseAfterFallLate(newLives) == IF newLives < 0 THEN "gameOver" ELSE "ready"

PhaseAfterFall(newLives) == IF newLives <= 0 THEN "gameOver" ELSE "ready"

BallAfterFall(b, newLives, sign) == IF newLives <= 0 THEN b ELSE resetBall(sign)

\* Gate that lets a paused game run.
GatePausedToo(gs) == gs = "playing" \/ gs = "paused"

\* Line 284: the gate of update(), on the gameState gs its closure holds.
Gate(gs) == gs = "playing"

\* PhaseAfterBricks counting one brick too many.
PhaseAfterBricksOneLeft(act, gs) ==
    IF Cardinality(ActiveBricks(act)) = 1 THEN "win" ELSE gs

\* Lines 334-336.
PhaseAfterBricks(act, gs) == IF Cardinality(ActiveBricks(act)) = 0 THEN "win" ELSE gs

\* update, lines 283-337, called from a closure whose gameState is gs.
\* Each \E over a one-element set names the value a statement of the code
\* leaves behind: b2 after lines 289-300, b3 after 302-314, p1 after
\* 316-326, b4 after 329, hit after 330.  The updater passed to setLives
\* (lines 304-313) is run where it is called.  React may also run it at the
\* next render; the frame ends in the same state then, because neither the
\* lost ball (below the field) nor the respawned one (at the centre) overlaps
\* the paddle or a brick in lines 329-330.
update(gs) ==
    IF ~Gate(gs)
    THEN /\ UNCHANGED <<gameState, score, lives, ball, paddle, bricks, played>>
         /\ last' = Quiet("tick", "")
    ELSE \E b2 \in {WallBounce(MoveBall(ball))} :
         \E sign \in IF BallFell(b2) THEN {1, -1} ELSE {1} :
         \E newLives \in {IF BallFell(b2) THEN LivesAfterFall(lives) ELSE lives} :
         \E b3 \in {IF BallFell(b2) THEN BallAfterFall(b2, newLives, sign) ELSE b2} :
         \E p1 \in {MovePaddle(paddle, keysPressed)} :
         \E b4 \in {checkBallPaddleCollision(b3, p1)} :
         \E hit \in {checkBallBrickCollision(b4, bricks)} :
             /\ lives' = newLives
             /\ paddle' = p1
             /\ ball' = hit.ball
             /\ bricks' = hit.bricks
             /\ score' = score + hit.points
             /\ gameState' =
                  PhaseAfterBricks(hit.bricks,
                      IF BallFell(b2) THEN PhaseAfterFall(newLives) ELSE gameState)
             /\ last' = [op |-> "tick", key |-> "", pre |-> Snapshot,
                         ran |-> TRUE, fell |-> BallFell(b2),
                         paddleHit |-> Overlap(b3, p1),
                         atPaddle |-> b3, atBricks |-> b4]
             /\ played' = Append(played, [paddleHit |-> Overlap(b3, p1),
                                          ball |-> hit.ball])

\* RestartLoop without the test of the ref.
RestartLoopUnguarded(gs) ==
    IF gs = "playing"
    THEN /\ pending' = pending \cup {gs}
         /\ animationFrameRef' = gs
    ELSE UNCHANGED <<pending, animationFrameRef>>

\* The effect of lines 419-423, run after a render that committed gs: it
\* starts a second loop, closed over that render, when the ref is unset.
RestartLoop(gs) ==
    IF gs = "playing" /\ animationFrameRef = "undefined"
    THEN /\ pending' = pending \cup {gs}
         /\ animationFrameRef' = gs
    ELSE UNCHANGED <<pending, animationFrameRef>>

\* resetGame without its initBricks() call.
resetGameKeepsBricks(sign) ==
    /\ score' = 0
    /\ lives' = START_LIVES
    /\ bricks' = bricks
    /\ ball' = resetBall(sign)
    /\ paddle' = [paddle EXCEPT !.x = PaddleStartX]
    /\ gameState' = "ready"

\* resetGame, lines 107-115.
resetGame(sign) ==
    /\ score' = 0
    /\ lives' = START_LIVES
    /\ bricks' = initBricks
    /\ ball' = resetBall(sign)
    /\ paddle' = [paddle EXCEPT !.x = PaddleStartX]
    /\ gameState' = "ready"

\* SpaceTarget that also starts a game from the end screens.
SpaceTargetFromEnd(gs) ==
    IF gs = "playing" THEN "paused" ELSE "playing"

\* The Space branch of handleKeyDown, lines 375-384.
SpaceTarget(gs) ==
    IF gs = "ready" THEN "playing"
    ELSE IF gs = "playing" THEN "paused"
    ELSE IF gs = "paused" THEN "playing"
    ELSE gs

IsSpace(k) == k = " " \/ k = "Spacebar"
IsRestart(k) == k = "r" \/ k = "R"

\* RestartAllowed in every phase.
RestartAllowedAlways(gs) == TRUE

\* Line 387.
RestartAllowed(gs) == gs = "gameOver" \/ gs = "win"

\* handleKeyDown, lines 372-391.
handleKeyDown(k) ==
    /\ mounted
    /\ Cardinality(keysPressed \cup {k}) <= MaxHeld
    /\ keysPressed' = keysPressed \cup {k}
    /\ last' = Quiet("keydown", k)
    /\ IF IsSpace(k)
       THEN /\ gameState' = SpaceTarget(gameState)
            /\ UNCHANGED <<score, lives, ball, paddle, bricks>>
       ELSE IF IsRestart(k) /\ RestartAllowed(gameState)
       THEN \E sign \in {1, -1} : resetGame(sign)
       ELSE UNCHANGED <<gameState, score, lives, ball, paddle, bricks>>
    /\ RestartLoop(gameState')
    /\ UNCHANGED <<mounted, ticks, played>>

\* handleKeyUp, lines 393-395.
handleKeyUp(k) ==
    /\ mounted
    /\ k \in keysPressed
    /\ keysPressed' = keysPressed \ {k}
    /\ last' = Quiet("keyup", k)
    /\ UNCHANGED <<gameState, score, lives, ball, paddle, bricks,
                   animationFrameRef, pending, mounted, ticks, played>>

\* gameLoop, lines 364-368, as the frame callback of the loop whose closure
\* holds gs: update, (render,) and the request for the next frame.
gameLoop(gs) ==
    /\ gs \in pending
    /\ ticks < MaxTicks
    /\ update(gs)
    /\ animationFrameRef' = gs
    /\ ticks' = ticks + 1
    /\ UNCHANGED <<keysPressed, pending, mounted>>

\* The cleanups of lines 400-403 and 411-415.
Unmount ==
    /\ mounted
    /\ mounted' = FALSE
    /\ pending' = pending \ {animationFrameRef}
    /\ last' = Quiet("unmount", "")
    /\ UNCHANGED <<gameState, score, lives, ball, paddle, bricks, keysPressed,
                   animationFrameRef, ticks, played>>

\* ------------------------------------------------------------------------
\* The component as mounted.  The mount effects have run (lines 407-410):
\* initBricks, and the first gameLoop() of the first render, whose closure
\* holds gameState = "ready" and whose frame request is pending.
Init ==
    /\ gameState = "ready"
    /\ score = 0
    /\ lives = START_LIVES
    /\ ball = InitialBall
    /\ paddle = PaddleAt(PaddleStartX)
    /\ bricks = initBricks
    /\ keysPressed = {}
    /\ animationFrameRef = "ready"
    /\ pending = {"ready"}
    /\ mounted = TRUE
    /\ ticks = 0
    /\ last = Quiet("init", "")
    /\ played = <<>>

KeyDown == \E k \in Keys : handleKeyDown(k)
KeyUp == \E k \in Keys : handleKeyUp(k)
Frame == \E gs \in pending : gameLoop(gs)

Next == KeyDown \/ KeyUp \/ Frame \/ Unmount

Spec == Init /\ [][Next]_vars

\* ------------------------------------------------------------------------
\* The engine: update() run by a frame with the committed gameState.

\* gameLoop with update reading the gameState of the current render.
gameLoopCurrent(gs) ==
    /\ gs \in pending
    /\ ticks < MaxTicks
    /\ update(gameState)
    /\ animationFrameRef' = gs
    /\ ticks' = ticks + 1
    /\ UNCHANGED <<keysPressed, pending, mounted>>

\* The points of the bricks that are inactive in act (setScore, line 249,
\* once per deactivation).
RECURSIVE PointsOf(_)
PointsOf(S) ==
    IF S = {} THEN 0
    ELSE LET i == CHOOSE j \in S : TRUE IN BrickPoints(i) + PointsOf(S \ {i})

Destroyed(act) == BrickIds \ ActiveBricks(act)

\* A ball given in pixels.
BallPx(x, y, dx, dy) ==
    [x |-> Px(x), y |-> Px(y), dx |-> Px(dx), dy |-> Px(dy),
     radius |-> Px(BALL_RADIUS)]

\* A ball given in hundredths of a pixel.
BallAt(x, y, dx, dy) ==
    [x |-> Quot(x * U, 100), y |-> Quot(y * U, 100),
     dx |-> Quot(dx * U, 100), dy |-> Quot(dy * U, 100),
     radius |-> Px(BALL_RADIUS)]

\* The grid with exactly the bricks of S active.
OnlyActive(S) == [i \in BrickIds |-> i \in S]

\* Frame states of a game in play.  Each scene is a ball, a paddle position,
\* a set of active bricks and a number of lives; the score is the one the
\* destroyed bricks have paid.
Scene(b, px, g, l) == [ball |-> b, px |-> Px(px), grid |-> g, lives |-> l]

\* Below the brick grid, moving up into row 5: into the gap between columns
\* 4 and 5 (bricks 55 and 56) from either side, and into column 9 at the
\* right wall.  The last scene is a ball coming off the paddle at 14 degrees
\* that meets brick 56 where the two products of line 242 are equal: one
\* frame later it is 38.70 right of and 18.45 below the brick's centre, and
\* 43 * 18.45 = 20.5 * 38.70.
BrickScenes ==
    {Scene(BallPx(424, 268, BALL_SPEED, -BALL_SPEED), 340, g, START_LIVES) :
        g \in {initBricks, OnlyActive({55}), OnlyActive({56}),
               OnlyActive({55, 56})}}
    \cup
    {Scene(BallPx(436, 268, -BALL_SPEED, -BALL_SPEED), 340, initBricks, START_LIVES),
     Scene(BallPx(792, 268, BALL_SPEED, -BALL_SPEED), 340, initBricks, START_LIVES),
     Scene(BallAt(50729, 27143, 141, -548), 340, initBricks, START_LIVES)}

\* One frame above the paddle, moving down: over the middle of a centred
\* paddle, and at either wall with the paddle against it.  The last two
\* scenes are what a fresh game comes to.  Its ball takes brick 56 in its
\* 9th frame and comes down to x = 724 in its 81st, the paddle having been
\* moved right 33 times.  If that ball is lost and respawns leftward, it
\* takes brick 55 in its 9th frame and comes down to x = 76 in its 81st,
\* the paddle having been moved left 33 times.
\*
\* WallPaddleScene is frame 448 of a fresh game played with the right key
\* held for frames 1-39 and the left key for frames 83-89, 188-237 and
\* 341-365: the ball has taken bricks 56, 60, 57 and 52, has bounced off the
\* paddle in frames 82, 187 and 340, and comes down along the left wall onto
\* the paddle, which is against that wall.
WallPaddleScene ==
    Scene(BallAt(851, 55200, -207, 526), 0,
          OnlyActive(BrickIds \ {52, 56, 57, 60}), START_LIVES)

PaddleScenes ==
    {Scene(BallPx(400, 552, BALL_SPEED, BALL_SPEED), 340, initBricks, START_LIVES),
     Scene(BallPx(792, 552, BALL_SPEED, BALL_SPEED), 680, initBricks, START_LIVES),
     Scene(BallPx(8, 552, -BALL_SPEED, BALL_SPEED), 0, initBricks, START_LIVES),
     Scene(BallPx(724, 552, BALL_SPEED, BALL_SPEED), 604,
           OnlyActive(BrickIds \ {56}), START_LIVES),
     Scene(BallPx(76, 552, -BALL_SPEED, BALL_SPEED), 76,
           OnlyActive(BrickIds \ {55, 56}), START_LIVES - 1),
     WallPaddleScene}

\* One frame before the ball is lost, with each number of lives.  The last
\* scene is frame 95 of a fresh game played without a key: the ball has
\* taken brick 56 and passes the paddle on its right.
BottomScenes ==
    {Scene(BallPx(400, 606, BALL_SPEED, BALL_SPEED), 340, initBricks, l) :
        l \in 1..START_LIVES}
    \cup
    {Scene(BallPx(400, 606, BALL_SPEED, BALL_SPEED), 340, OnlyActive({55}), 1),
     Scene(BallPx(780, 608, BALL_SPEED, BALL_SPEED), 340,
           OnlyActive(BrickIds \ {56}), START_LIVES)}

\* The top left corner, in the channel left of column 0.
CornerScenes ==
    {Scene(BallPx(10, 10, -BALL_SPEED, -BALL_SPEED), 340, initBricks, START_LIVES)}

Scenes == BrickScenes \cup PaddleScenes \cup BottomScenes \cup CornerScenes

EngineInit ==
    \/ Init
    \/ \E s \in Scenes :
         /\ gameState = "playing"
         /\ score = PointsOf(Destroyed(s.grid))
         /\ lives = s.lives
         /\ ball = s.ball
         /\ paddle = PaddleAt(s.px)
         /\ bricks = s.grid
         /\ keysPressed = {}
         /\ animationFrameRef = "ready"
         /\ pending = {"ready"}
         /\ mounted = TRUE
         /\ ticks = 0
         /\ last = Quiet("init", "")
         /\ played = <<>>

FrameCurrent == \E gs \in pending : gameLoopCurrent(gs)

NextEngine == KeyDown \/ KeyUp \/ FrameCurrent

SpecEngine == EngineInit /\ [][NextEngine]_vars

\* ------------------------------------------------------------------------
\* Properties.  last.pre is the state a step started from, so a property of
\* one step is a property of the state after it.

Pre == last.pre
Tick == last.op = "tick"
\* A frame that found the committed gameState to be "playing".
PlayingTick == Tick /\ Pre.gameState = "playing"
\* The R key pressed on an end screen.
Restarted ==
    last.op = "keydown" /\ IsRestart(last.key) /\ Pre.gameState \in {"gameOver", "win"}

CenterX == Px(CANVAS_WIDTH) \div 2
CenterY == Px(CANVAS_HEIGHT) \div 2

\* C1: a frame that runs while the committed gameState is "playing" runs the
\* simulation step: it passes the gate of update() and, unless the ball is
\* respawned or snapped to the paddle, the ball has moved by (dx, dy).
C1_PlayingTickRunsStep ==
    PlayingTick =>
        /\ last.ran
        /\ (~last.fell /\ ~last.paddleHit) =>
              /\ ball.x = Pre.ball.x + Pre.ball.dx
              /\ ball.y = Pre.ball.y + Pre.ball.dy

C4_BallBelowField ==
    PlayingTick /\ Pre.ball.y + Pre.ball.dy - Pre.ball.radius > Px(CANVAS_HEIGHT)

C7_Overlapping ==
    {i \in BrickIds : Pre.bricks[i] /\ Overlap(last.atBricks, Brick(i, Pre.bricks))}

C7_Deactivated == {i \in BrickIds : Pre.bricks[i] /\ ~bricks[i]}

RECURSIVE C8_SumFrom(_)
C8_SumFrom(i) ==
    IF i > BRICK_ROWS * BRICK_COLS THEN 0
    ELSE (IF bricks[i] THEN 0 ELSE (BRICK_ROWS - ((i - 1) \div BRICK_COLS)) * 10)
         + C8_SumFrom(i + 1)

Respawned == C4_BallBelowField /\ lives > 0

C16_OneLoop ==
    /\ Cardinality(pending) <= 1
    /\ ~mounted => (pending = {} /\ last.op = "unmount")

\* Unmounted after the phase has changed twice and frames have run.
C16_Witness ==
    /\ ~mounted
    /\ gameState = "paused"
    /\ ticks > 0

C19_Outside(b) == b.x + b.radius > Px(CANVAS_WIDTH) \/ b.x - b.radius < 0

====
